---- MODULE Spec2Model ----
(***************************************************************************)
(* A model of the undo/redo engine: the Timeline (src/src/timeline.rs),    *)
(* the Add command (src/add.rs) and the UndoGroup (src/src/group.rs).      *)
(*                                                                         *)
(* Timeline::apply, undo, redo and go_to are `unimplemented!()` in         *)
(* timeline.rs; their bodies are modelled from section 4.1 of the          *)
(* specification, read literally.  Slot, Signal, Entry, the Command trait  *)
(* and UndoStack live in the crate root, which is not among the sources;   *)
(* they are modelled from the specification as well.  Everything else is   *)
(* translated from the source text.                                        *)
(***************************************************************************)
EXTENDS Integers, Sequences, FiniteSets, TLC

\* The ArrayVec of timeline.rs:20 holds 32 entries; the model scales the
\* capacity down so that eviction is reached within a small state space.
Capacity == 3
\* Longest text a mergeable operation may grow to by absorbing its successors.
MaxRun == 2
\* The target String is unbounded; the model stops applying once it holds
\* more characters than the timeline has room for entries, so that the oldest
\* entry is evicted.
MaxTarget == Capacity + 1

\* The characters Add commands push, and those the mergeable operations push.
Chars == {"a"}
EditChars == {"x"}

VARIABLES
    entries,    \* Timeline.entries: the recorded commands, oldest first
    current,    \* Timeline.current
    saved,      \* Timeline.saved: <<>> is None, <<n>> is Some(n)
    connected,  \* Timeline.slot.f is Some(callback)
    target,     \* the caller-owned String the commands mutate
    emitted,    \* the signals the callback received during the last call
    lastSig,    \* observer: per signal kind, the last value the connected callback heard
    ret,        \* the last call and what it returned
    run,        \* observer: the current run of applies followed by undos
    savedSeq,   \* observer: progress through set_saved(true); apply; undo
    watch       \* which observers record: "calls", "runs", "saved", "signals" or "heard"

tvars == <<entries, current, saved, connected, target, emitted, lastSig, ret, run, savedSeq, watch>>

VARIABLES
    group,      \* UndoGroup.group: id -> UndoStack
    active,     \* UndoGroup.active: <<>> is None, <<id>> is Some(id)
    id,         \* UndoGroup.id: the next identifier
    vecs,       \* per stack, the Vec its commands mutate (vec1, vec2 of the test)
    aborted,    \* the thread panicked (an unwrap on None)
    gret,       \* the last group call and what it returned
    issued,     \* observer: the identifiers add_stack returned, in order
    strayed     \* observer: a call was given an id with no stack in the group

gvars == <<group, active, id, vecs, aborted, gret, issued, strayed>>

vars == <<tvars, gvars>>

None == <<>>
Some(n) == <<n>>

----------------------------------------------------------------------------
(* Commands *)

AddCmd(c) == [kind |-> "Add", text |-> <<c>>]
EditCmd(c) == [kind |-> "Edit", text |-> <<c>>]
NewCmds == {AddCmd(c) : c \in Chars} \cup {EditCmd(c) : c \in EditChars}

DropLast(s, n) == SubSeq(s, 1, Len(s) - n)

\* Add::apply: s.push(self.0); Ok(())
AddApply(c, s) ==
    [cmd |-> c, target |-> Append(s, c.text[1]), ok |-> TRUE, err |-> ""]

\* As AddUndo, reading the last character without removing it (last for pop).
AddUndo_reads(c, s) ==
    IF s = <<>>
    THEN [cmd |-> c, target |-> s, ok |-> FALSE, err |-> "s is empty"]
    ELSE [cmd |-> [c EXCEPT !.text = <<s[Len(s)]>>], target |-> s, ok |-> TRUE, err |-> ""]

\* Add::undo: self.0 = s.pop().ok_or("s is empty")?; Ok(())
AddUndo(c, s) ==
    IF s = <<>>
    THEN [cmd |-> c, target |-> s, ok |-> FALSE, err |-> "s is empty"]
    ELSE [cmd |-> [c EXCEPT !.text = <<s[Len(s)]>>],
          target |-> DropLast(s, 1), ok |-> TRUE, err |-> ""]

\* A reversible operation other than Add (spec section 3): it appends its text,
\* may fail, and on failure leaves the target as it was (spec section 7).
EditApply(c, s, okIn) ==
    IF okIn
    THEN [cmd |-> c, target |-> s \o c.text, ok |-> TRUE, err |-> ""]
    ELSE [cmd |-> c, target |-> s, ok |-> FALSE, err |-> "edit failed"]

EditUndo(c, s, okIn) ==
    IF okIn /\ Len(s) >= Len(c.text)
    THEN [cmd |-> c, target |-> DropLast(s, Len(c.text)), ok |-> TRUE, err |-> ""]
    ELSE [cmd |-> c, target |-> s, ok |-> FALSE, err |-> "edit failed"]

\* merge(next) -> bool: whether next was absorbed into c.  Add has no merge.
CmdMerge(c, next, accept) ==
    IF /\ accept
       /\ c.kind = "Edit"
       /\ next.kind = "Edit"
       /\ Len(c.text) + Len(next.text) <= MaxRun
    THEN [ok |-> TRUE, cmd |-> [c EXCEPT !.text = c.text \o next.text]]
    ELSE [ok |-> FALSE, cmd |-> c]

\* PopCmd of the test in group.rs: { vec, e: None }
PopCmd == [kind |-> "Pop", e |-> <<>>]

\* PopCmd::redo: self.e = self.vec.borrow_mut().pop();
PopRedo(c, v) ==
    [cmd |-> [c EXCEPT !.e = IF v = <<>> THEN <<>> ELSE <<v[Len(v)]>>],
     target |-> IF v = <<>> THEN v ELSE DropLast(v, 1), ok |-> TRUE, err |-> ""]

\* PopCmd::undo: self.vec.borrow_mut().push(self.e.unwrap()); self.e = None;
\* the unwrap of None panics.
PopUndo(c, v) ==
    IF c.e = <<>>
    THEN [cmd |-> c, target |-> v, ok |-> FALSE, err |-> "panic"]
    ELSE [cmd |-> [c EXCEPT !.e = <<>>], target |-> Append(v, c.e[1]), ok |-> TRUE, err |-> ""]

CmdApply(c, s, okIn) ==
    CASE c.kind = "Add" -> AddApply(c, s)
      [] c.kind = "Pop" -> PopRedo(c, s)
      [] OTHER -> EditApply(c, s, okIn)

CmdUndo(c, s, okIn) ==
    CASE c.kind = "Add" -> AddUndo(c, s)
      [] c.kind = "Pop" -> PopUndo(c, s)
      [] OTHER -> EditUndo(c, s, okIn)

----------------------------------------------------------------------------
(* Timeline: the queries *)

Self == [entries |-> entries, current |-> current, saved |-> saved]

len(t) == Len(t.entries)
limit == Capacity
can_undo(t) == t.current > 0
can_redo(t) == t.current < len(t)
is_saved(t) == t.saved # None /\ t.saved[1] = t.current

Sig(kind, value) == [kind |-> kind, value |-> value]

\* Slot::emit_if: the callback, if one is connected, receives the signal when cond holds.
emit_if(conn, cond, sig) == IF cond /\ conn THEN <<sig>> ELSE <<>>

\* The signals of one step: one for each of the three booleans that flipped.
Transitions(before, after, conn) ==
    emit_if(conn, can_undo(before) # can_undo(after), Sig("Undo", can_undo(after)))
    \o emit_if(conn, can_redo(before) # can_redo(after), Sig("Redo", can_redo(after)))
    \o emit_if(conn, is_saved(before) # is_saved(after), Sig("Saved", is_saved(after)))

----------------------------------------------------------------------------
(* Timeline: the operations, as functions of the timeline t and the target s *)

Step(t, s, ok, err, sigs, merged, evicted, dropped) ==
    [t |-> t, target |-> s, ok |-> ok, err |-> err, sigs |-> sigs,
     merged |-> merged, evicted |-> evicted, dropped |-> dropped]

Failed(t, r) == Step(t, r.target, FALSE, r.err, <<>>, FALSE, FALSE, 0)

\* The entry before the cursor absorbs the command: no entry is appended.
Absorb(t, m) == [t EXCEPT !.entries[t.current] = m.cmd]

\* As Truncate, keeping the redo tail.
Truncate_keeps(t) == t

\* All entries at index >= current, the redo tail, are discarded.
Truncate(t) == [t EXCEPT !.entries = SubSeq(t.entries, 1, t.current)]

\* As Evict, leaving the saved marker where it was.
Evict_unshifted(t) ==
    IF Len(t.entries) = limit
    THEN [entries |-> Tail(t.entries), current |-> t.current - 1, saved |-> t.saved]
    ELSE t

\* As Evict, evicting the newest entry instead of the oldest.
Evict_newest(t) ==
    IF Len(t.entries) = limit
    THEN [entries |-> DropLast(t.entries, 1),
          current |-> t.current - 1,
          saved |-> IF t.saved = None THEN None
                    ELSE IF t.saved[1] = 0 THEN None
                    ELSE Some(t.saved[1] - 1)]
    ELSE t

\* If appending would exceed the capacity the oldest entry is evicted; cursor
\* and saved marker shift down by one, and a saved marker on the evicted
\* position is lost.
Evict(t) ==
    IF Len(t.entries) = limit
    THEN [entries |-> Tail(t.entries),
          current |-> t.current - 1,
          saved |-> IF t.saved = None THEN None
                    ELSE IF t.saved[1] = 0 THEN None
                    ELSE Some(t.saved[1] - 1)]
    ELSE t

\* The new entry is appended and the cursor advances by one.
Push(t, cmd) == [t EXCEPT !.entries = Append(t.entries, cmd), !.current = t.current + 1]

\* Timeline::apply (spec 4.1).  The command runs first.  On success the entry
\* before the cursor absorbs it if there is one and its merge accepts;
\* otherwise the redo tail is discarded and the command appended.
Timeline_apply(t, s, cmd, okIn, accept, conn) ==
    LET r == CmdApply(cmd, s, okIn)
        m == CmdMerge(t.entries[t.current], r.cmd, accept)
        absorbed == Absorb(t, m)
        kept == Truncate(t)
        appended == Push(Evict(kept), r.cmd)
    IN  IF ~r.ok
        THEN Failed(t, r)
        ELSE IF t.current > 0 /\ m.ok
        THEN Step(absorbed, r.target, TRUE, "", Transitions(t, absorbed, conn), TRUE, FALSE, 0)
        ELSE Step(appended, r.target, TRUE, "", Transitions(t, appended, conn), FALSE,
                  Len(kept.entries) = limit, Len(t.entries) - Len(kept.entries))

\* As Timeline_undo, moving the cursor back even when the command fails.
Timeline_undo_moves(t, s, okIn, conn) ==
    LET r == CmdUndo(t.entries[t.current], s, okIn)
        after == [t EXCEPT !.entries[t.current] = r.cmd, !.current = t.current - 1]
    IN  IF ~r.ok
        THEN Failed(after, r)
        ELSE Step(after, r.target, TRUE, "", Transitions(t, after, conn), FALSE, FALSE, 0)

\* Timeline::undo (spec 4.1), called with current > 0: undoes the entry before
\* the cursor; on success the cursor moves back, on failure nothing changes.
Timeline_undo(t, s, okIn, conn) ==
    LET r == CmdUndo(t.entries[t.current], s, okIn)
        after == [t EXCEPT !.entries[t.current] = r.cmd, !.current = t.current - 1]
    IN  IF ~r.ok
        THEN Failed(t, r)
        ELSE Step(after, r.target, TRUE, "", Transitions(t, after, conn), FALSE, FALSE, 0)

\* Timeline::redo (spec 4.1), called with current < len: applies the entry at
\* the cursor again; on success the cursor moves forward.
Timeline_redo(t, s, okIn, conn) ==
    LET r == CmdApply(t.entries[t.current + 1], s, okIn)
        after == [t EXCEPT !.entries[t.current + 1] = r.cmd, !.current = t.current + 1]
    IN  IF ~r.ok
        THEN Failed(t, r)
        ELSE Step(after, r.target, TRUE, "", Transitions(t, after, conn), FALSE, FALSE, 0)

\* As Timeline_go_to, moving the cursor over the step that failed.
RECURSIVE Timeline_go_to_moves(_, _, _, _, _, _)
Timeline_go_to_moves(t, s, index, failAt, n, conn) ==
    IF t.current = index
    THEN [t |-> t, target |-> s, ok |-> TRUE, err |-> "", sigs |-> <<>>, steps |-> n]
    ELSE LET back == index < t.current
             r == IF back
                  THEN Timeline_undo(t, s, failAt # n + 1, conn)
                  ELSE Timeline_redo(t, s, failAt # n + 1, conn)
             rest == Timeline_go_to_moves(r.t, r.target, index, failAt, n + 1, conn)
         IN  IF ~r.ok
             THEN [t |-> [t EXCEPT !.current = IF back THEN @ - 1 ELSE @ + 1],
                   target |-> r.target, ok |-> FALSE, err |-> r.err,
                   sigs |-> <<>>, steps |-> n]
             ELSE [rest EXCEPT !.sigs = r.sigs \o rest.sigs]

\* Timeline::go_to (spec 4.1), called with index <= len: one undo or redo at a
\* time until the cursor is at index, stopping at the first step that fails.
\* n counts the steps taken; step number failAt is the one whose command is
\* told to fail (0: none is).
RECURSIVE Timeline_go_to(_, _, _, _, _, _)
Timeline_go_to(t, s, index, failAt, n, conn) ==
    IF t.current = index
    THEN [t |-> t, target |-> s, ok |-> TRUE, err |-> "", sigs |-> <<>>, steps |-> n]
    ELSE LET r == IF index < t.current
                  THEN Timeline_undo(t, s, failAt # n + 1, conn)
                  ELSE Timeline_redo(t, s, failAt # n + 1, conn)
             rest == Timeline_go_to(r.t, r.target, index, failAt, n + 1, conn)
         IN  IF ~r.ok
             THEN [t |-> r.t, target |-> r.target, ok |-> FALSE, err |-> r.err,
                   sigs |-> <<>>, steps |-> n]
             ELSE [rest EXCEPT !.sigs = r.sigs \o rest.sigs]

\* As Timeline_set_saved, marking position 0 instead of the cursor.
Timeline_set_saved_start(t, b, conn) ==
    LET was_saved == is_saved(t)
    IN  IF b
        THEN [t |-> [t EXCEPT !.saved = Some(0)],
              sigs |-> emit_if(conn, ~was_saved, Sig("Saved", TRUE))]
        ELSE [t |-> [t EXCEPT !.saved = None],
              sigs |-> emit_if(conn, was_saved, Sig("Saved", FALSE))]

\* As Timeline_set_saved, emitting whether or not the saved state changed.
Timeline_set_saved_emits(t, b, conn) ==
    IF b
    THEN [t |-> [t EXCEPT !.saved = Some(t.current)],
          sigs |-> emit_if(conn, TRUE, Sig("Saved", TRUE))]
    ELSE [t |-> [t EXCEPT !.saved = None],
          sigs |-> emit_if(conn, TRUE, Sig("Saved", FALSE))]

\* Timeline::set_saved
Timeline_set_saved(t, b, conn) ==
    LET was_saved == is_saved(t)
    IN  IF b
        THEN [t |-> [t EXCEPT !.saved = Some(t.current)],
              sigs |-> emit_if(conn, ~was_saved, Sig("Saved", TRUE))]
        ELSE [t |-> [t EXCEPT !.saved = None],
              sigs |-> emit_if(conn, was_saved, Sig("Saved", FALSE))]

\* As Timeline_clear, forgetting that the timeline was saved.
Timeline_clear_unsaves(t, conn) ==
    [t |-> [entries |-> <<>>, saved |-> None, current |-> 0],
     sigs |-> emit_if(conn, can_undo(t), Sig("Undo", FALSE))
              \o emit_if(conn, can_redo(t), Sig("Redo", FALSE))]

\* As Timeline_clear, leaving the cursor where it was.
Timeline_clear_keeps(t, conn) ==
    [t |-> [entries |-> <<>>,
            saved |-> IF is_saved(t) THEN Some(0) ELSE None,
            current |-> t.current],
     sigs |-> emit_if(conn, can_undo(t), Sig("Undo", FALSE))
              \o emit_if(conn, can_redo(t), Sig("Redo", FALSE))]

\* Timeline::clear
Timeline_clear(t, conn) ==
    LET could_undo == can_undo(t)
        could_redo == can_redo(t)
    IN  [t |-> [entries |-> <<>>,
                saved |-> IF is_saved(t) THEN Some(0) ELSE None,
                current |-> 0],
         sigs |-> emit_if(conn, could_undo, Sig("Undo", FALSE))
                  \o emit_if(conn, could_redo, Sig("Redo", FALSE))]

----------------------------------------------------------------------------
(* Observers *)

NoRun == [phase |-> "none", base |-> <<>>, ops |-> <<>>, undone |-> 0,
          merged |-> FALSE, fromEmpty |-> FALSE]

\* A run is a maximal sequence of successful applies followed by successful
\* undos, no more undos than applies; calls that fail do not interrupt it.
RunApply(r, targetBefore, lenBefore, cmd, merged) ==
    IF r.phase = "applying"
    THEN [r EXCEPT !.ops = Append(r.ops, cmd), !.merged = r.merged \/ merged]
    ELSE [phase |-> "applying", base |-> targetBefore, ops |-> <<cmd>>, undone |-> 0,
          merged |-> merged, fromEmpty |-> lenBefore = 0]

RunUndo(r) ==
    IF r.phase \in {"applying", "undoing"} /\ r.undone < Len(r.ops)
    THEN [r EXCEPT !.phase = "undoing", !.undone = r.undone + 1]
    ELSE NoRun

Said(b) == IF b THEN "true" ELSE "false"

RECURSIVE Heard(_, _)
\* What the callback has last heard of each kind, after hearing sigs; "twice"
\* once a signal repeated the value the one before it of its kind carried.
Heard(last, sigs) ==
    IF sigs = <<>> THEN last
    ELSE LET sig == Head(sigs)
         IN  Heard([last EXCEPT ![sig.kind] =
                        IF @ \in {Said(sig.value), "twice"} THEN "twice" ELSE Said(sig.value)],
                   Tail(sigs))

NoSig == [k \in {"Undo", "Redo", "Saved"} |-> "none"]

\* What a call returned (ok, err) and what it did: whether apply merged, evicted
\* the oldest entry, how many redo-tail entries it dropped; for go_to the
\* index asked for and the steps taken.
Ret(call, ok, err, merged, evicted, dropped, steps, index) ==
    [call |-> call, ok |-> ok, err |-> err, merged |-> merged, evicted |-> evicted,
     dropped |-> dropped, steps |-> steps, index |-> index]

Called(call) == Ret(call, TRUE, "", FALSE, FALSE, 0, 0, 0)

NoRet == Called("")

\* Each observer records under its own specification and rests otherwise, so
\* that the observers do not multiply each other's states.
Returned(r) ==
    ret' = CASE watch = "calls" -> r
             [] watch = "signals" -> Called(r.call)
             [] OTHER -> NoRet
Ran(r) == run' = IF watch = "runs" THEN r ELSE NoRun
Sequenced(n) == savedSeq' = IF watch = "saved" THEN n ELSE 0

----------------------------------------------------------------------------
(* Timeline: the calls *)

\* Builder::new().saved(b).build(), with or without Builder::connect
TimelineInit ==
    /\ entries = <<>>
    /\ current = 0
    /\ saved \in {Some(0), None}
    /\ connected \in BOOLEAN
    /\ target = <<>>
    /\ emitted = <<>>
    /\ lastSig = NoSig
    /\ ret = NoRet
    /\ run = NoRun
    /\ savedSeq = 0

Install(t) ==
    /\ entries' = t.entries
    /\ current' = t.current
    /\ saved' = t.saved

Hear(sigs) ==
    /\ emitted' = IF watch = "signals" THEN sigs ELSE <<>>
    /\ lastSig' = IF watch = "heard" THEN Heard(lastSig, sigs) ELSE NoSig

apply(cmd, okIn, accept) ==
    /\ Len(target) + Len(cmd.text) <= MaxTarget
    /\ \E r \in {Timeline_apply(Self, target, cmd, okIn, accept, connected)} :
           /\ Install(r.t)
           /\ target' = r.target
           /\ Hear(r.sigs)
           /\ Returned(Ret("apply", r.ok, r.err, r.merged, r.evicted, r.dropped, 0, 0))
           /\ Ran(IF r.ok THEN RunApply(run, target, Len(entries), cmd, r.merged) ELSE run)
           /\ Sequenced(IF ~r.ok THEN savedSeq ELSE IF savedSeq = 1 THEN 2 ELSE 0)
    /\ UNCHANGED <<connected, watch, gvars>>

undo(okIn) ==
    /\ current > 0
    /\ \E r \in {Timeline_undo(Self, target, okIn, connected)} :
           /\ Install(r.t)
           /\ target' = r.target
           /\ Hear(r.sigs)
           /\ Returned(Ret("undo", r.ok, r.err, FALSE, FALSE, 0, 0, 0))
           /\ Ran(IF r.ok THEN RunUndo(run) ELSE run)
           /\ Sequenced(IF ~r.ok THEN savedSeq ELSE IF savedSeq = 2 THEN 3 ELSE 0)
    /\ UNCHANGED <<connected, watch, gvars>>

redo(okIn) ==
    /\ current < Len(entries)
    /\ \E r \in {Timeline_redo(Self, target, okIn, connected)} :
           /\ Install(r.t)
           /\ target' = r.target
           /\ Hear(r.sigs)
           /\ Returned(Ret("redo", r.ok, r.err, FALSE, FALSE, 0, 0, 0))
           /\ Ran(IF r.ok THEN NoRun ELSE run)
           /\ Sequenced(IF r.ok THEN 0 ELSE savedSeq)
    /\ UNCHANGED <<connected, watch, gvars>>

GoTo(call, index, failAt) ==
    \E r \in {Timeline_go_to(Self, target, index, failAt, 0, connected)} :
        /\ Install(r.t)
        /\ target' = r.target
        /\ Hear(r.sigs)
        /\ Returned(Ret(call, r.ok, r.err, FALSE, FALSE, 0, r.steps, index))
        /\ Ran(IF r.steps > 0 THEN NoRun ELSE run)
        /\ Sequenced(IF r.steps > 0 THEN 0 ELSE savedSeq)
        /\ UNCHANGED <<connected, watch, gvars>>

go_to(index, failAt) ==
    /\ index <= Len(entries)
    /\ failAt <= (IF index < current THEN current - index ELSE index - current)
    /\ GoTo("go_to", index, failAt)

\* As revert, going to position 0 instead of the saved one.
revert_to_start(failAt) ==
    IF saved = None
    THEN /\ failAt = 0
         /\ Returned([Called("revert") EXCEPT !.err = "None"])
         /\ emitted' = <<>>
         /\ UNCHANGED <<entries, current, saved, connected, target, lastSig, run, savedSeq, watch, gvars>>
    ELSE /\ failAt <= current
         /\ GoTo("revert", 0, failAt)

\* Timeline::revert: self.saved.and_then(|saved| self.go_to(target, saved))
revert(failAt) ==
    IF saved = None
    THEN /\ failAt = 0
         /\ Returned([Called("revert") EXCEPT !.err = "None"])
         /\ emitted' = <<>>
         /\ UNCHANGED <<entries, current, saved, connected, target, lastSig, run, savedSeq, watch, gvars>>
    ELSE /\ saved[1] <= Len(entries)
         /\ failAt <= (IF saved[1] < current THEN current - saved[1] ELSE saved[1] - current)
         /\ GoTo("revert", saved[1], failAt)

set_saved(b) ==
    /\ \E r \in {Timeline_set_saved(Self, b, connected)} :
           /\ Install(r.t)
           /\ Hear(r.sigs)
    /\ Returned(Called(IF b THEN "set_saved(true)" ELSE "set_saved(false)"))
    /\ Ran(NoRun)
    /\ Sequenced(IF b THEN 1 ELSE 0)
    /\ UNCHANGED <<connected, target, watch, gvars>>

clear ==
    /\ \E r \in {Timeline_clear(Self, connected)} :
           /\ Install(r.t)
           /\ Hear(r.sigs)
    /\ Returned(Called("clear"))
    /\ Ran(NoRun)
    /\ Sequenced(0)
    /\ UNCHANGED <<connected, target, watch, gvars>>

\* Timeline::connect: self.slot.f.replace(slot); the new callback has heard nothing.
connect ==
    /\ connected' = TRUE
    /\ lastSig' = NoSig
    /\ emitted' = <<>>
    /\ Returned(Called("connect"))
    /\ UNCHANGED <<entries, current, saved, target, run, savedSeq, watch, gvars>>

\* Timeline::disconnect: self.slot.f.take()
disconnect ==
    /\ connected' = FALSE
    /\ lastSig' = NoSig
    /\ emitted' = <<>>
    /\ Returned(Called("disconnect"))
    /\ UNCHANGED <<entries, current, saved, target, run, savedSeq, watch, gvars>>

----------------------------------------------------------------------------
(* UndoGroup *)

\* Most stacks one group is given.
MaxStacks == 2

Ids == 0 .. MaxStacks - 1

\* UndoStack::new(): an empty history whose position 0 is the saved one
\* (Builder::new sets saved: true).
NewStack == [entries |-> <<>>, current |-> 0, saved |-> Some(0)]

\* vec![1, 2, 3] of the test
NewVec == <<1, 2, 3>>

GRet(call, i, stack) == [call |-> call, id |-> i, stack |-> stack]

\* UndoGroup::new
GroupInit ==
    /\ group = <<>>
    /\ active = None
    /\ id = 0
    /\ vecs = <<>>
    /\ aborted = FALSE
    /\ gret = GRet("new", 0, None)
    /\ issued = <<>>
    /\ strayed = FALSE

Put(f, k, v) == [x \in DOMAIN f \cup {k} |-> IF x = k THEN v ELSE f[x]]
Remove(f, k) == [x \in DOMAIN f \ {k} |-> f[x]]

Panic(call, i) ==
    /\ aborted' = TRUE
    /\ gret' = GRet(call, i, None)
    /\ UNCHANGED <<group, active, id, vecs>>

\* UndoGroup::is_clean, UndoGroup::is_dirty: <<>> is None, <<b>> is Some(b)
is_clean ==
    IF active # None /\ active[1] \in DOMAIN group
    THEN Some(is_saved(group[active[1]]))
    ELSE None

is_dirty == IF is_clean = None THEN None ELSE Some(~is_clean[1])

\* As add_stack, resetting the counter to the number of stacks in the map.
add_stack_counts ==
    /\ ~aborted
    /\ id < MaxStacks
    /\ id' = Cardinality(DOMAIN group \cup {id})
    /\ group' = Put(group, id, NewStack)
    /\ vecs' = Put(vecs, id, NewVec)
    /\ gret' = GRet("add_stack", id, None)
    /\ issued' = Append(issued, id)
    /\ UNCHANGED <<active, aborted, strayed, tvars>>

\* UndoGroup::add_stack, given UndoStack::new(); the commands later pushed on the
\* stack mutate a vector of their own.
add_stack ==
    /\ ~aborted
    /\ id < MaxStacks
    /\ id' = id + 1
    /\ group' = Put(group, id, NewStack)
    /\ vecs' = Put(vecs, id, NewVec)
    /\ gret' = GRet("add_stack", id, None)
    /\ issued' = Append(issued, id)
    /\ UNCHANGED <<active, aborted, strayed, tvars>>

\* As remove_stack, leaving the active id as it was.
remove_stack_keeps(i) ==
    /\ ~aborted
    /\ IF i \notin DOMAIN group
       THEN Panic("remove_stack", i)
       ELSE /\ group' = Remove(group, i)
            /\ gret' = GRet("remove_stack", i, Some(group[i]))
            /\ UNCHANGED <<active, id, vecs, aborted>>
    /\ strayed' = (strayed \/ i \notin DOMAIN group)
    /\ UNCHANGED <<issued, tvars>>

\* UndoGroup::remove_stack
remove_stack(i) ==
    /\ ~aborted
    /\ IF i \notin DOMAIN group
       THEN Panic("remove_stack", i)
       ELSE /\ group' = Remove(group, i)
            /\ active' = IF active # None /\ active[1] = i THEN None ELSE active
            /\ gret' = GRet("remove_stack", i, Some(group[i]))
            /\ UNCHANGED <<id, vecs, aborted>>
    /\ strayed' = (strayed \/ i \notin DOMAIN group)
    /\ UNCHANGED <<issued, tvars>>

\* As set_active_stack, ignoring an id that has no stack in the map.
set_active_stack_checks(i) ==
    /\ ~aborted
    /\ active' = IF i \in DOMAIN group THEN Some(i) ELSE active
    /\ gret' = GRet("set_active_stack", i, None)
    /\ strayed' = (strayed \/ i \notin DOMAIN group)
    /\ UNCHANGED <<group, id, vecs, aborted, issued, tvars>>

\* UndoGroup::set_active_stack
set_active_stack(i) ==
    /\ ~aborted
    /\ active' = Some(i)
    /\ gret' = GRet("set_active_stack", i, None)
    /\ strayed' = (strayed \/ i \notin DOMAIN group)
    /\ UNCHANGED <<group, id, vecs, aborted, issued, tvars>>

\* UndoGroup::clear_active_stack
clear_active_stack ==
    /\ ~aborted
    /\ active' = None
    /\ gret' = GRet("clear_active_stack", 0, None)
    /\ UNCHANGED <<group, id, vecs, aborted, issued, strayed, tvars>>

\* As Delegate, storing the result under the lowest key of the map.
Delegate_lowest(call, a, r) ==
    IF ~r.ok
    THEN Panic(call, a)
    ELSE LET k == CHOOSE x \in DOMAIN group : \A y \in DOMAIN group : x <= y
         IN  /\ group' = [group EXCEPT ![k] = r.t]
             /\ vecs' = [vecs EXCEPT ![k] = r.target]
             /\ gret' = GRet(call, a, None)
             /\ UNCHANGED <<active, id, aborted>>

\* The body shared by UndoGroup::push, redo and undo: nothing without an active
\* id, a panic (get_mut(active).unwrap()) when the active id has no stack,
\* otherwise the call on the active stack, whose command may panic in turn.
Delegate(call, a, r) ==
    IF ~r.ok
    THEN Panic(call, a)
    ELSE /\ group' = [group EXCEPT ![a] = r.t]
         /\ vecs' = [vecs EXCEPT ![a] = r.target]
         /\ gret' = GRet(call, a, None)
         /\ UNCHANGED <<active, id, aborted>>

\* As Nothing, unwrapping the active id, which panics when there is none.
Nothing_unwraps(call) == Panic(call, 0)

\* if let Some(ref active) = self.active { .. } else: no stack is touched and
\* the call returns None.
Nothing(call) ==
    /\ gret' = GRet(call, 0, None)
    /\ UNCHANGED <<group, active, id, vecs, aborted>>

\* UndoGroup::push, with PopCmd { vec: the stack's vector, e: None }
group_push ==
    /\ ~aborted
    /\ IF active = None THEN Nothing("push")
       ELSE IF active[1] \notin DOMAIN group THEN Panic("push", active[1])
       ELSE Delegate("push", active[1],
                     Timeline_apply(group[active[1]], vecs[active[1]], PopCmd, TRUE, FALSE, FALSE))
    /\ UNCHANGED <<issued, strayed, tvars>>

\* UndoGroup::redo
group_redo ==
    /\ ~aborted
    /\ IF active = None THEN Nothing("redo")
       ELSE IF active[1] \notin DOMAIN group THEN Panic("redo", active[1])
       ELSE /\ can_redo(group[active[1]])
            /\ Delegate("redo", active[1],
                        Timeline_redo(group[active[1]], vecs[active[1]], TRUE, FALSE))
    /\ UNCHANGED <<issued, strayed, tvars>>

\* UndoGroup::undo
group_undo ==
    /\ ~aborted
    /\ IF active = None THEN Nothing("undo")
       ELSE IF active[1] \notin DOMAIN group THEN Panic("undo", active[1])
       ELSE /\ can_undo(group[active[1]])
            /\ Delegate("undo", active[1],
                        Timeline_undo(group[active[1]], vecs[active[1]], TRUE, FALSE))
    /\ UNCHANGED <<issued, strayed, tvars>>

----------------------------------------------------------------------------
(* Specifications *)

Init == TimelineInit /\ GroupInit /\ ~connected /\ watch = "calls"

Next ==
    \/ \E cmd \in NewCmds, okIn \in BOOLEAN, accept \in BOOLEAN : apply(cmd, okIn, accept)
    \/ \E okIn \in BOOLEAN : undo(okIn)
    \/ \E okIn \in BOOLEAN : redo(okIn)
    \/ \E index \in 0 .. Capacity, failAt \in 0 .. Capacity : go_to(index, failAt)
    \/ \E failAt \in 0 .. Capacity : revert(failAt)
    \/ \E b \in BOOLEAN : set_saved(b)
    \/ clear

\* A timeline built without a callback, and none connected later: no signal
\* is heard, and the history behaves as with one.
Spec == Init /\ [][Next]_vars

RunInit == TimelineInit /\ GroupInit /\ ~connected /\ watch = "runs"
RunSpec == RunInit /\ [][Next]_vars

SavedInit == TimelineInit /\ GroupInit /\ ~connected /\ watch = "saved"
SavedSpec == SavedInit /\ [][Next]_vars

SignalInit == TimelineInit /\ GroupInit /\ watch = "signals"
SignalNext ==
    \/ Next
    \/ connect
    \/ disconnect

SignalSpec == SignalInit /\ [][SignalNext]_vars

HeardInit == TimelineInit /\ GroupInit /\ watch = "heard"
HeardSpec == HeardInit /\ [][SignalNext]_vars

GroupNext ==
    \/ add_stack
    \/ \E i \in Ids : remove_stack(i)
    \/ \E i \in Ids : set_active_stack(i)
    \/ clear_active_stack
    \/ group_push
    \/ group_redo
    \/ group_undo

\* The group is exercised beside a timeline that stays as Timeline::new() built it.
GroupStart == Init /\ saved = Some(0)
GroupSpec == GroupStart /\ [][GroupNext]_vars

----------------------------------------------------------------------------
(* The claims *)

SelfNext == [entries |-> entries', current |-> current', saved |-> saved']

\* The errors the commands return.
OpErrors == {"s is empty", "edit failed"}

Dist(a, b) == IF a < b THEN b - a ELSE a - b

\* C1: in every reachable state of a Timeline, 0 <= current <= len <= capacity.
C1_CursorWithinBounds ==
    /\ 0 <= current
    /\ current <= Len(entries)
    /\ Len(entries) <= Capacity

\* C1: a full timeline whose last apply evicted the oldest entry.
C1_Witness ==
    /\ ret.call = "apply"
    /\ ret.evicted
    /\ current = Capacity
    /\ Len(entries) = Capacity

RunUndone == run.phase = "undoing" /\ run.undone = Len(run.ops)

\* C2 as stated: after n successful applies followed by n successful undos the
\* target is what it was before the first apply.
C2_UndosRestoreTarget == RunUndone => target = run.base

\* C2 as amended: the same, when none of the n applies was absorbed by merge
\* into an existing entry.
C2_UnmergedUndosRestoreTarget == (RunUndone /\ ~run.merged) => target = run.base

\* C2: two or more appended commands, all undone.
C2_Witness == RunUndone /\ ~run.merged /\ Len(run.ops) >= 2

\* C3: can_redo() is false right after every successful apply, appended or merged.
C3_NoRedoAfterApply == (ret.call = "apply" /\ ret.ok) => ~can_redo(Self)

\* C4: a successful apply at cursor c < len that does not merge keeps the
\* entries below c, records the new operation at index c and leaves
\* len = current = c + 1, so that nothing of the old tail is left to redo.
C4_ApplyDiscardsRedoTail ==
    [][(ret'.call = "apply" /\ ret'.ok /\ ~ret'.merged /\ current < Len(entries)) =>
          /\ SubSeq(entries', 1, current) = SubSeq(entries, 1, current)
          /\ Len(entries') = current + 1
          /\ current' = current + 1
          /\ target' = target \o entries'[current + 1].text
          /\ ~can_redo(SelfNext)]_vars

\* C4: an apply has just dropped a redo tail.
C4_Witness == ret.call = "apply" /\ ret.ok /\ ~ret.merged /\ ret.dropped > 0

PushedFromEmpty == run.phase = "applying" /\ run.fromEmpty /\ ~run.merged

\* C5: after capacity + k unmerged applies to an empty timeline, len and
\* current are the capacity and the entries are the last capacity operations
\* applied, in order.
C5_KeepsMostRecent ==
    (PushedFromEmpty /\ Len(run.ops) >= Capacity) =>
        /\ Len(entries) = Capacity
        /\ current = Capacity
        /\ entries = SubSeq(run.ops, Len(run.ops) - Capacity + 1, Len(run.ops))

\* C5: more operations were pushed than the timeline holds.
C5_Witness == PushedFromEmpty /\ Len(run.ops) > Capacity

\* C6: set_saved(true), one successful apply, one successful undo: is_saved() is true.
C6_SavedAfterApplyUndo == savedSeq = 3 => is_saved(Self)

\* C7: a failing apply, undo or redo leaves entries, current and saved as they
\* were and returns the command's error.
C7_FailureKeepsHistory ==
    [][(ret'.call \in {"apply", "undo", "redo"} /\ ~ret'.ok) =>
          /\ entries' = entries
          /\ current' = current
          /\ saved' = saved
          /\ ret'.err \in OpErrors]_vars

\* C7: an undo or redo of a recorded entry has just failed.
C7_Witness == ret.call \in {"undo", "redo"} /\ ~ret.ok /\ Len(entries) > 0

\* C8: go_to(index), index <= len, moves the cursor toward index one step at a
\* time: all |index - current| steps when none fails, ending at index without
\* an error; otherwise it stops at the failing step, the cursor where the
\* steps before it brought it, and returns that step's error.  The entries
\* are unchanged.
C8_GoToStepwise ==
    [][ret'.call = "go_to" =>
          /\ entries' = entries
          /\ ret'.steps <= Dist(ret'.index, current)
          /\ current' = IF ret'.index < current
                        THEN current - ret'.steps
                        ELSE current + ret'.steps
          /\ ret'.ok <=> ret'.steps = Dist(ret'.index, current)
          /\ ret'.ok <=> current' = ret'.index
          /\ IF ret'.ok THEN ret'.err = "" ELSE ret'.err \in OpErrors]_vars

\* C8: a go_to stopped at a failing step after at least one step succeeded.
C8_Witness == ret.call = "go_to" /\ ~ret.ok /\ ret.steps >= 1

Kinds == {"Undo", "Redo", "Saved"}

Flag(kind, t) ==
    CASE kind = "Undo" -> can_undo(t)
      [] kind = "Redo" -> can_redo(t)
      [] OTHER -> is_saved(t)

Of(kind, sigs) == {i \in DOMAIN sigs : sigs[i].kind = kind}

SingleSteps == {"apply", "undo", "redo", "set_saved(true)", "set_saved(false)", "clear"}

\* C9: during an apply, undo, redo, set_saved or clear with a callback
\* connected, a signal of a kind is emitted exactly when the boolean of that
\* kind changed, once, carrying the new value.
C9_SignalsOnFlips ==
    [][(connected /\ ret'.call \in SingleSteps) =>
          \A k \in Kinds :
              /\ Of(k, emitted') # {} <=> Flag(k, SelfNext) # Flag(k, Self)
              /\ Cardinality(Of(k, emitted')) <= 1
              /\ \A i \in Of(k, emitted') : emitted'[i].value = Flag(k, SelfNext)]_vars

\* C9: a clear told the callback that neither undo nor redo is possible any more.
C9_Witness == connected /\ ret.call = "clear" /\ Len(emitted) = 2

\* The consequence C9 draws, an invariant of HeardSpec: no callback hears the
\* same value twice in a row from signals of one kind.
C9_SignalsAlternate == \A k \in Kinds : lastSig[k] # "twice"

\* C10: push, undo and redo of the group leave every stack but the active one,
\* and its vector, as they were, and change neither the set of stacks nor
\* the active id.
C10_OnlyActiveStack ==
    [][gret'.call \in {"push", "undo", "redo"} =>
          /\ DOMAIN group' = DOMAIN group
          /\ active' = active
          /\ \A k \in DOMAIN group :
                 (active = None \/ k # active[1]) =>
                     /\ group'[k] = group[k]
                     /\ vecs'[k] = vecs[k]]_vars

\* C10: two stacks with history, the active one has just been undone.
C10_Witness ==
    /\ gret.call = "undo"
    /\ active # None
    /\ Cardinality(DOMAIN group) = 2
    /\ \A k \in DOMAIN group : Len(group[k].entries) > 0

GroupCalls == {"push", "undo", "redo"}

\* C11: while the group has no active stack, push, undo and redo change no
\* stack and no vector and do not panic, and is_clean() and is_dirty() are None.
C11_NoActiveNoEffect ==
    /\ [](active = None => is_clean = None /\ is_dirty = None)
    /\ [][(active = None /\ gret'.call \in GroupCalls) =>
              /\ group' = group
              /\ vecs' = vecs
              /\ active' = None
              /\ id' = id
              /\ ~aborted'
              /\ gret'.stack = None]_vars

\* C11: redo was called on a group whose active stack, one with history, had
\* been removed, while another stack remains.
C11_Witness ==
    /\ gret.call = "redo"
    /\ active = None
    /\ ~aborted
    /\ Len(issued) = 2
    /\ Cardinality(DOMAIN group) = 1
    /\ is_clean = None

\* C12: remove_stack(id) for an id in the group removes that stack alone and
\* returns it, unsets the active id when it was id and leaves it otherwise,
\* and leaves every other stack as it was.
C12_RemoveExactlyOne ==
    [][(gret'.call = "remove_stack" /\ gret'.id \in DOMAIN group) =>
          /\ DOMAIN group' = DOMAIN group \ {gret'.id}
          /\ gret'.stack = Some(group[gret'.id])
          /\ active' = IF active = Some(gret'.id) THEN None ELSE active
          /\ \A k \in DOMAIN group' : group'[k] = group[k]
          /\ id' = id
          /\ ~aborted']_vars

\* C12: the active stack, holding a command, was removed and returned while
\* another stack with history stays in the group.
C12_Witness ==
    /\ gret.call = "remove_stack"
    /\ gret.stack # None
    /\ Len(gret.stack[1].entries) > 0
    /\ active = None
    /\ \E k \in DOMAIN group : Len(group[k].entries) > 0

\* C13: the identifiers add_stack returned are pairwise distinct, whether or not
\* their stacks are still in the group, and the counter is greater than each.
C13_IdsNeverReused ==
    /\ \A m, n \in 1 .. Len(issued) : m # n => issued[m] # issued[n]
    /\ \A m \in 1 .. Len(issued) : issued[m] < id

\* C13: a second identifier was issued after the stack of the first was removed.
C13_Witness ==
    /\ gret.call = "add_stack"
    /\ Len(issued) = 2
    /\ issued[1] \notin DOMAIN group
    /\ issued[2] \in DOMAIN group

\* C20: as long as set_active_stack and remove_stack were only given ids of
\* stacks in the group, the active id is unset or the key of a stack in the
\* group and push, undo and redo do not panic on a missing stack;
\* set_active_stack stores whatever id it is given and changes nothing else.
C20_ActiveIsPresent ==
    /\ [](~strayed =>
              /\ active = None \/ active[1] \in DOMAIN group
              /\ ~(aborted /\ gret.call \in GroupCalls /\ gret.id \notin DOMAIN group))
    /\ [][gret'.call = "set_active_stack" =>
              /\ active' = Some(gret'.id)
              /\ group' = group
              /\ vecs' = vecs
              /\ id' = id
              /\ ~aborted']_vars

\* C20: with only ids of present stacks ever given, both ids were issued, one
\* stack was removed and the remaining, active one was pushed to and undone.
C20_Witness ==
    /\ ~strayed
    /\ ~aborted
    /\ gret.call = "undo"
    /\ active # None
    /\ Len(issued) = 2
    /\ Cardinality(DOMAIN group) = 1

\* C14: in every reachable state of a Timeline, saved is None or Some(s) with
\* s <= len, also after an apply that truncated a redo tail holding the saved
\* position.
C14_SavedWithinLen == saved = None \/ saved[1] <= Len(entries)

\* C19: a successful apply never changes is_saved() from false to true.
C19_ApplyNeverSaves ==
    [][(ret'.call = "apply" /\ ret'.ok /\ ~is_saved(Self)) => ~is_saved(SelfNext)]_vars

\* C15: set_saved(true) sets saved = Some(current) and set_saved(false) sets
\* saved = None, so is_saved() equals the argument afterwards; entries and
\* current are unchanged; Saved(argument) is emitted, once, exactly when
\* is_saved() before the call differed from the argument, so the second of
\* two set_saved(b) in a row emits nothing.
C15_SetSaved ==
    [][\A b \in BOOLEAN :
          ret'.call = "set_saved(" \o Said(b) \o ")" =>
              /\ saved' = IF b THEN Some(current) ELSE None
              /\ is_saved(SelfNext) = b
              /\ entries' = entries
              /\ current' = current
              /\ target' = target
              /\ emitted' = IF connected /\ is_saved(Self) # b
                            THEN <<Sig("Saved", b)>> ELSE <<>>
              /\ ret.call = ret'.call => emitted' = <<>>]_vars

\* C15: a connected callback was told Saved(false) by set_saved(false) on a
\* timeline with history that was saved at its cursor.
C15_Witness ==
    /\ connected
    /\ ret.call = "set_saved(false)"
    /\ emitted = <<Sig("Saved", FALSE)>>
    /\ current > 0
    /\ saved = None

\* C16: clear() leaves len = 0 and current = 0; saved becomes Some(0) if
\* is_saved() was true before the call and None otherwise, so is_saved() keeps
\* its value; Undo(false) is emitted iff can_undo() was true before,
\* Redo(false) iff can_redo() was true before, and no Saved signal.
C16_Clear ==
    [][ret'.call = "clear" =>
          /\ entries' = <<>>
          /\ current' = 0
          /\ saved' = IF saved = Some(current) THEN Some(0) ELSE None
          /\ is_saved(SelfNext) = is_saved(Self)
          /\ target' = target
          /\ emitted' = (IF connected /\ can_undo(Self) THEN <<Sig("Undo", FALSE)>> ELSE <<>>)
                        \o (IF connected /\ can_redo(Self) THEN <<Sig("Redo", FALSE)>> ELSE <<>>)]_vars

\* C16: a timeline saved at a cursor above 0 was cleared: it is saved at 0 and
\* the callback heard Undo(false) and nothing else.
C16_Witness ==
    /\ connected
    /\ ret.call = "clear"
    /\ saved = Some(0)
    /\ emitted = <<Sig("Undo", FALSE)>>

\* C17: revert with saved = Some(s) does what go_to(target, s) does: entries
\* and saved stay, and when every step succeeds current = s and is_saved() is
\* true; with saved = None it returns None and changes neither the target nor
\* entries, current or saved.
C17_Revert ==
    [][ret'.call = "revert" =>
          IF saved = None
          THEN /\ ret'.err = "None"
               /\ target' = target
               /\ SelfNext = Self
          ELSE /\ \E failAt \in 0 .. Capacity :
                      \E r \in {Timeline_go_to(Self, target, saved[1], failAt, 0, connected)} :
                          /\ SelfNext = r.t
                          /\ target' = r.target
                          /\ ret'.ok = r.ok
                          /\ ret'.err = r.err
               /\ entries' = entries
               /\ saved' = saved
               /\ ret'.ok => current' = saved[1] /\ is_saved(SelfNext)]_vars

\* C17: a revert undid two commands to come back to the saved position.
C17_Witness ==
    /\ ret.call = "revert"
    /\ ret.ok
    /\ ret.steps = 2
    /\ saved = Some(current)
    /\ Len(entries) > current

\* C18: an apply that evicts the oldest entry shifts the indices by one:
\* saved = Some(k) with k > 0 becomes Some(k - 1), Some(0) becomes None, None
\* stays None, and the cursor ends at the capacity.
C18_EvictionShifts ==
    [][(ret'.call = "apply" /\ ret'.ok /\ ret'.evicted) =>
          /\ Len(entries) = limit
          /\ saved' = IF saved = None \/ saved = Some(0) THEN None ELSE Some(saved[1] - 1)
          /\ current' = limit
          /\ Len(entries') = limit
          /\ \A i \in 1 .. limit - 1 : entries'[i] = entries[i + 1]]_vars

\* C18: an apply on a full timeline saved at its cursor evicted the oldest
\* entry; the saved position moved down with the entries.
C18_Witness ==
    /\ ret.call = "apply"
    /\ ret.evicted
    /\ saved = Some(limit - 1)
    /\ current = limit

====
